---- MODULE Spec2Model ----
(***************************************************************************)
(* OAuth account linking of the dashboard backend: the GitHub login, the   *)
(* per-provider connect / callback / disconnect / status / listing routes  *)
(* for Google Calendar, Gmail and Slack, the session stash that tells the  *)
(* callback which account started the flow, and the user documents.        *)
(*                                                                         *)
(* One action is one request handler, split where the handler awaits: the  *)
(* OAuth callback is CallbackHandle (token exchange, stash lookup, up to   *)
(* the await of the credential write) and CallbackPersist (the write, the  *)
(* stash delete and the redirect).  Other requests interleave in between.  *)
(* req.session is read and written as the session's state, statement by    *)
(* statement, as the handlers are written.                                 *)
(*                                                                         *)
(* The listing routes are also modelled step by step, each under its own   *)
(* specification: GET /events with its concurrent per-calendar requests    *)
(* (SpecEvents) and GET /emails with its loop over the listed messages     *)
(* (SpecEmails).  SpecConcurrentLogin splits the GitHub login at the       *)
(* awaits of the verify callback, and SpecTwoProviders lets one session    *)
(* use two providers at once.                                              *)
(***************************************************************************)
EXTENDS Integers, Sequences, FiniteSets, TLC

\* ------------------------------------------------------------------ bounds
MaxNow == 6          \* requests handled in one behaviour (the logical clock)
MaxUsers == 2        \* GitHub profiles that may log in
MaxSessions == 2     \* browser sessions
MaxInflight == 2     \* callbacks awaiting their credential write at once
MaxProviders == 1    \* providers the client uses in one behaviour
MaxCalendars == 2    \* calendars of one account
MaxItems == 2        \* events one calendar returns
MaxVerifying == 2    \* GitHub logins between findOne and save at once
MaxMessages == 2     \* messages the inbox listing returns
MaxPulls == 2        \* pull requests one search returns
MaxAdvances == 2     \* times the browser's clock is seen to have moved on

\* --------------------------------------------------------------- constants
NoId == 0                               \* an absent id: req.user / a stash slot that is undefined
NullDate == 0                           \* expiresAt: null
Null == "null"                          \* null / undefined field of a document
GoogleExpiryMs == 3600000
SlackExpiryMs == 24 * 60 * 60 * 1000

Providers == {"googleCalendar", "gmail", "slack"}
Profiles == 1..MaxUsers
Sessions == 1..MaxSessions

\* the session key holding the stash of a provider
PendingKey(P) ==
  CASE P = "googleCalendar" -> "pendingGoogleAuth"
    [] P = "gmail" -> "pendingGmailAuth"
    [] P = "slack" -> "pendingSlackAuth"

\* (mutant) every route redirects with the name of the calendar route
ConnectedNameCopied(P) == "google-calendar"

\* the value of connected=<...> in the success redirect
ConnectedName(P) ==
  CASE P = "googleCalendar" -> "google-calendar"
    [] P = "gmail" -> "gmail"
    [] P = "slack" -> "slack"

\* error=<...> of the outer catch of a callback
SetupError(P) ==
  CASE P = "googleCalendar" -> "calendar_setup"
    [] P = "gmail" -> "gmail_setup"
    [] P = "slack" -> "slack_setup"

ErrorCodes ==
  {"oauth_error", "no_auth_data", "no_user"} \cup {SetupError(P) : P \in Providers}

\* ------------------------------------------------ what the providers return
\* The authorization grant the provider issues for the flow that account a
\* started, and what exchanging it yields (done(null, {profile, accessToken,
\* refreshToken})).  The strings name the flow they belong to.
AuthCodes == <<"code-1", "code-2", "code-3", "code-4">>
AccessTokens == <<"at-1", "at-2", "at-3", "at-4">>
RefreshTokens == <<"rt-1", "rt-2", "rt-3", "rt-4">>
Emails == <<"mail-1", "mail-2", "mail-3", "mail-4">>
TeamIds == <<"team-1", "team-2", "team-3", "team-4">>
SlackUserIds == <<"member-1", "member-2", "member-3", "member-4">>

AuthData(a) ==
  [ flow |-> a,
    code |-> AuthCodes[a],
    accessToken |-> AccessTokens[a],
    refreshToken |-> RefreshTokens[a],
    email |-> Emails[a],
    teamId |-> TeamIds[a],
    teamName |-> TeamIds[a],
    userId |-> SlackUserIds[a],
    username |-> SlackUserIds[a] ]

\* GitHub issues a new access token with every authorization: one that differs
\* from the token the user document holds
GithubTokens == {"gh-at-1", "gh-at-2"}

IssuedGithubToken(stored) == CHOOSE t \in GithubTokens : t # stored

\* ------------------------------------------------------------ user documents
\* The googleCalendar subdocument of a new user: connected defaults to false,
\* the other paths are not set (read as null).
CalendarDefault ==
  [ connected |-> FALSE, accessToken |-> Null, refreshToken |-> Null,
    email |-> Null, expiresAt |-> NullDate ]

\* The gmail and slack subdocuments of a new user.  The schema that declares
\* them is not among the sources; they are taken to be declared as
\* googleCalendar is, with the fields their routes write.
GmailDefault ==
  [ connected |-> FALSE, accessToken |-> Null, refreshToken |-> Null,
    email |-> Null, expiresAt |-> NullDate ]

SlackDefault ==
  [ connected |-> FALSE, accessToken |-> Null, teamId |-> Null, teamName |-> Null,
    userId |-> Null, username |-> Null, expiresAt |-> NullDate ]

\* (mutant) the callback stores the tokens without setting connected
LinkedCredentialNotConnected(P, g, t) ==
  IF P = "slack"
  THEN [ connected |-> FALSE, accessToken |-> g.accessToken, teamId |-> g.teamId,
         teamName |-> g.teamName, userId |-> g.userId, username |-> g.username,
         expiresAt |-> t + SlackExpiryMs ]
  ELSE [ connected |-> FALSE, accessToken |-> g.accessToken, refreshToken |-> g.refreshToken,
         email |-> g.email, expiresAt |-> t + GoogleExpiryMs ]

\* the credential the callback writes
LinkedCredential(P, g, t) ==
  IF P = "slack"
  THEN [ connected |-> TRUE, accessToken |-> g.accessToken, teamId |-> g.teamId,
         teamName |-> g.teamName, userId |-> g.userId, username |-> g.username,
         expiresAt |-> t + SlackExpiryMs ]
  ELSE [ connected |-> TRUE, accessToken |-> g.accessToken, refreshToken |-> g.refreshToken,
         email |-> g.email, expiresAt |-> t + GoogleExpiryMs ]

\* (mutant) disconnect only lowers the connected flag
ClearedCredentialKeepsTokens(P) ==
  IF P = "slack"
  THEN [ connected |-> FALSE, accessToken |-> "at-1", teamId |-> "team-1",
         teamName |-> "team-1", userId |-> "member-1", username |-> "member-1",
         expiresAt |-> SlackExpiryMs ]
  ELSE [ connected |-> FALSE, accessToken |-> "at-1", refreshToken |-> "rt-1",
         email |-> "mail-1", expiresAt |-> GoogleExpiryMs ]

\* the credential disconnect writes
ClearedCredential(P) ==
  IF P = "slack"
  THEN [ connected |-> FALSE, accessToken |-> Null, teamId |-> Null, teamName |-> Null,
         userId |-> Null, username |-> Null, expiresAt |-> NullDate ]
  ELSE [ connected |-> FALSE, accessToken |-> Null, refreshToken |-> Null,
         email |-> Null, expiresAt |-> NullDate ]

NewUser(profile, token) ==
  [ githubId |-> profile,
    accessToken |-> token,
    refreshToken |-> Null,
    googleCalendar |-> CalendarDefault,
    gmail |-> GmailDefault,
    slack |-> SlackDefault ]

NewSession ==
  [ user |-> NoId, pendingGoogleAuth |-> NoId, pendingGmailAuth |-> NoId,
    pendingSlackAuth |-> NoId ]

\* ---------------------------------------------------------------- the state
VARIABLES
  now,        \* logical clock: Date.now() of the request being handled
  users,      \* the users collection: _id (1..Len) -> document
  sessions,   \* the session store: session -> session data
  flows,      \* <<provider, account>>: consent flows the provider was sent
  inflight,   \* callbacks awaiting User.findByIdAndUpdate
  linked,     \* per session and provider: credential writes since the last connect
  resp,       \* the last response sent
  active,     \* the providers the client uses in this behaviour
  attempt,    \* per session and provider: "failed" after a callback was answered with
              \* an error, "retry" once a connect followed it, "none" before
  fetch,      \* the listing request that awaits the provider's API
  verifying,  \* GitHub logins between User.findOne and user.save
  browser     \* the browser of session 1: Date.now(), localStorage and the state of
              \* the integration component on the dashboard

vars == <<now, users, sessions, flows, inflight, linked, resp, active, attempt, fetch, verifying,
          browser>>

Ids == 1..Len(users)

\* User.findOne({ githubId })
FindByGithubId(profile) ==
  IF \E i \in Ids : users[i].githubId = profile
  THEN CHOOSE i \in Ids : users[i].githubId = profile
  ELSE NoId

\* req.isAuthenticated()
IsAuthenticated(s) == sessions[s].user # NoId

Response(op, s, P, status, location, query, body) ==
  [ at |-> now + 1, op |-> op, session |-> s, provider |-> P, status |-> status,
    location |-> location, query |-> query, body |-> body ]

\* (mutant) requireAuth answers without setting the status
UnauthorizedDefaultStatus(op, s, P) ==
  Response(op, s, P, 200, "", <<>>, [error |-> "User not authenticated"])

\* requireAuth: res.status(401).json(...)
Unauthorized(op, s, P) ==
  Response(op, s, P, 401, "", <<>>, [error |-> "User not authenticated"])

ClientRedirect(s, P, key, value) ==
  Response("callback", s, P, 302, "client/dashboard", <<<<key, value>>>>, [error |-> ""])

\* no listing request is in progress
NoFetch == [ kind |-> "none" ]

\* the browser is not looked at
NoBrowser == [ component |-> "none" ]

Init ==
  /\ active \in {A \in SUBSET Providers : Cardinality(A) = MaxProviders}
  /\ now = 0
  /\ users = <<>>
  /\ sessions = [s \in Sessions |-> NewSession]
  /\ flows = {}
  /\ inflight = {}
  /\ linked = [s \in Sessions |-> [P \in Providers |-> 0]]
  /\ resp = [ at |-> 0, op |-> "none", session |-> NoId, provider |-> "", status |-> 0,
              location |-> "", query |-> <<>>, body |-> [error |-> ""] ]
  /\ attempt = [s \in Sessions |-> [P \in Providers |-> "none"]]
  /\ fetch = NoFetch
  /\ verifying = {}
  /\ browser = NoBrowser

\* every request is handled at a later time than the one before
Step == now < MaxNow /\ now' = now + 1 /\ UNCHANGED <<active, browser>>

\* a request of the linking routes: no listing and no login is in progress
Tick == Step /\ UNCHANGED <<fetch, verifying>>

\* ------------------------------------------------------------ login / logout
\* The session after passport's req.logIn / req.logout: passport 0.6 and later
\* regenerate the session (the stash is gone), earlier versions keep its data.
SessionAfterAuth(sess, id, keep) ==
  IF keep THEN [sess EXCEPT !.user = id] ELSE [NewSession EXCEPT !.user = id]

\* (mutant) the verify callback stores a fresh document for an existing user
VerifyGithubReplacesDocument(profile, token) ==
  LET found == FindByGithubId(profile)
  IN IF found # NoId
     THEN [users EXCEPT ![found] = NewUser(profile, token)]
     ELSE Append(users, NewUser(profile, token))

\* the GitHub strategy's verify callback: update the tokens of the existing
\* user, or create the user
VerifyGithub(profile, token) ==
  LET found == FindByGithubId(profile)
  IN IF found # NoId
     THEN [users EXCEPT ![found].accessToken = token, ![found].refreshToken = Null]
     ELSE Append(users, NewUser(profile, token))

\* GET /auth/github/callback with a grant of GitHub for `profile`
Login(s, profile, keep) ==
  /\ Tick
  /\ LET found == FindByGithubId(profile)
         id == IF found # NoId THEN found ELSE Len(users) + 1
         token == IssuedGithubToken(IF found # NoId THEN users[found].accessToken ELSE Null)
     IN /\ users' = VerifyGithub(profile, token)
        /\ sessions' = [sessions EXCEPT ![s] = SessionAfterAuth(@, id, keep)]
  /\ resp' = Response("login", s, "", 302, "client/dashboard", <<>>, [error |-> ""])
  /\ UNCHANGED <<flows, inflight, linked, attempt>>

\* GET /auth/logout
Logout(s, keep) ==
  /\ Tick
  /\ sessions' = [sessions EXCEPT ![s] = SessionAfterAuth(@, NoId, keep)]
  /\ resp' = Response("logout", s, "", 302, "client/login", <<>>, [error |-> ""])
  /\ UNCHANGED <<users, flows, inflight, linked, attempt>>

\* ------------------------------------------------------------------ connect
\* (mutant) connect keeps a stash entry that is already there
SetStashIfAbsent(sess, P, id) ==
  IF sess[PendingKey(P)] = NoId THEN [sess EXCEPT ![PendingKey(P)] = id] ELSE sess

\* req.session.pending<P>Auth = req.user._id
SetStash(sess, P, id) == [sess EXCEPT ![PendingKey(P)] = id]

\* (mutant) the callback forgets to delete the stash entry
DeleteStashForgotten(sess, P) == sess

\* (mutant) the callback clears the pending entries of every provider
DeleteEveryStash(sess, P) ==
  [sess EXCEPT !.pendingGoogleAuth = NoId, !.pendingGmailAuth = NoId, !.pendingSlackAuth = NoId]

\* delete req.session.pending<P>Auth
DeleteStash(sess, P) == [sess EXCEPT ![PendingKey(P)] = NoId]

\* (mutant) connect also resets the stored credential of the provider
ConnectResetsCredential(s, P) ==
  /\ Tick
  /\ IF IsAuthenticated(s)
     THEN /\ sessions' = [sessions EXCEPT ![s] = SetStash(@, P, sessions[s].user)]
          /\ users' = [users EXCEPT ![sessions[s].user][P] = ClearedCredential(P)]
          /\ flows' = flows \cup {<<P, sessions[s].user>>}
          /\ linked' = [linked EXCEPT ![s][P] = 0]
          /\ attempt' = [attempt EXCEPT ![s][P] = IF @ = "failed" THEN "retry" ELSE @]
          /\ resp' = Response("connect", s, P, 302, "provider/consent", <<>>, [error |-> ""])
     ELSE /\ resp' = Unauthorized("connect", s, P)
          /\ UNCHANGED <<users, sessions, flows, linked, attempt>>
  /\ UNCHANGED inflight

\* GET /api/<P>/connect
Connect(s, P) ==
  /\ Tick
  /\ IF IsAuthenticated(s)
     THEN /\ sessions' = [sessions EXCEPT ![s] = SetStash(@, P, sessions[s].user)]
          /\ flows' = flows \cup {<<P, sessions[s].user>>}
          /\ linked' = [linked EXCEPT ![s][P] = 0]
          /\ attempt' = [attempt EXCEPT ![s][P] = IF @ = "failed" THEN "retry" ELSE @]
          /\ resp' = Response("connect", s, P, 302, "provider/consent", <<>>, [error |-> ""])
     ELSE /\ resp' = Unauthorized("connect", s, P)
          /\ UNCHANGED <<sessions, flows, linked, attempt>>
  /\ UNCHANGED <<users, inflight>>

\* ----------------------------------------------------------------- callback
\* what passport.authenticate hands the callback when the provider gave no
\* authorization data
NoAuthData ==
  [ flow |-> NoId, code |-> Null, accessToken |-> Null, refreshToken |-> Null,
    email |-> Null, teamId |-> Null, teamName |-> Null, userId |-> Null, username |-> Null ]

\* (err, authData) of a callback for P: an error of the provider or of the
\* token exchange, no authorization data, or the data of a grant that the
\* provider issued for one of the flows it was sent
CallbackInputs(P) ==
  {[err |-> TRUE, authData |-> NoAuthData], [err |-> FALSE, authData |-> NoAuthData]}
    \cup {[err |-> FALSE, authData |-> AuthData(f[2])] : f \in {x \in flows : x[1] = P}}

\* (mutant) the callback does not check that a stash entry exists
CallbackBranchNoUserCheck(err, authData, userId) ==
  IF err THEN "oauth_error"
  ELSE IF authData = NoAuthData THEN "no_auth_data"
  ELSE "persist"

\* (mutant) the callback does not check that authorization data came back
CallbackBranchNoAuthDataCheck(err, authData, userId) ==
  IF err THEN "oauth_error"
  ELSE IF userId = NoId THEN "no_user"
  ELSE "persist"

\* the branch the callback takes: an error code, or "persist"
CallbackBranch(err, authData, userId) ==
  IF err THEN "oauth_error"
  ELSE IF authData = NoAuthData THEN "no_auth_data"
  ELSE IF userId = NoId THEN "no_user"
  ELSE "persist"

\* GET /api/<P>/callback, up to `await User.findByIdAndUpdate`
CallbackHandle(s, P, in) ==
  /\ Tick
  /\ LET userId == sessions[s][PendingKey(P)]
         branch == CallbackBranch(in.err, in.authData, userId)
     IN IF branch = "persist"
        THEN /\ Cardinality(inflight) < MaxInflight
             /\ inflight' = inflight \cup
                  {[ at |-> now, session |-> s, provider |-> P, userId |-> userId,
                     authData |-> in.authData ]}
             /\ UNCHANGED <<resp, attempt>>
        ELSE /\ resp' = ClientRedirect(s, P, "error", branch)
             /\ attempt' = [attempt EXCEPT ![s][P] = "failed"]
             /\ UNCHANGED inflight
  /\ UNCHANGED <<users, sessions, flows, linked>>

\* (mutant) the update merges into the stored subdocument and skips the
\* fields given as null
UpdateCredentialSkipNulls(us, id, P, cred) ==
  IF id \in 1..Len(us)
  THEN [us EXCEPT ![id][P] =
          [f \in DOMAIN cred |->
             IF f = "connected" THEN cred[f]
             ELSE IF f = "expiresAt" THEN (IF cred[f] = NullDate THEN @[f] ELSE cred[f])
             ELSE IF cred[f] = Null THEN @[f] ELSE cred[f]]]
  ELSE us

\* User.findByIdAndUpdate(userId, { <P>: credential })
UpdateCredential(us, id, P, cred) ==
  IF id \in 1..Len(us) THEN [us EXCEPT ![id][P] = cred] ELSE us

\* (mutant) the callback redirects without waiting for the credential write
CallbackPersistRedirectsFirst(r) ==
  /\ Tick
  /\ sessions' = [sessions EXCEPT ![r.session] = DeleteStash(@, r.provider)]
  /\ linked' = [linked EXCEPT ![r.session][r.provider] = @ + 1]
  /\ inflight' = inflight \ {r}
  /\ resp' = ClientRedirect(r.session, r.provider, "connected", ConnectedName(r.provider))
  /\ UNCHANGED <<users, flows, attempt>>

\* the continuation of the callback: the credential is written, the stash
\* deleted, the client redirected
CallbackPersist(r) ==
  /\ Tick
  /\ users' = UpdateCredential(users, r.userId, r.provider,
                               LinkedCredential(r.provider, r.authData, r.at))
  /\ sessions' = [sessions EXCEPT ![r.session] = DeleteStash(@, r.provider)]
  /\ linked' = [linked EXCEPT ![r.session][r.provider] = @ + 1]
  /\ inflight' = inflight \ {r}
  /\ resp' = ClientRedirect(r.session, r.provider, "connected", ConnectedName(r.provider))
  /\ UNCHANGED <<flows, attempt>>

\* The credential write is rejected (the database does not answer, the id is
\* no ObjectId).  The rejection is thrown inside the async callback handed to
\* passport.authenticate, whose promise nothing awaits: the try/catch of the
\* route has been left when the callback runs, so its catch never sees it.
\* No redirect is sent, nothing is written and the stash entry stays.
CallbackPersistFails(r) ==
  /\ Tick
  /\ inflight' = inflight \ {r}
  /\ UNCHANGED <<users, sessions, flows, linked, attempt, resp>>

\* --------------------------------------------------- disconnect and status
\* (mutant) disconnect also drops the pending stash entry of the provider
DisconnectDropsStash(s, P) ==
  /\ Tick
  /\ IF IsAuthenticated(s)
     THEN /\ users' = UpdateCredential(users, sessions[s].user, P, ClearedCredential(P))
          /\ sessions' = [sessions EXCEPT ![s] = DeleteStash(@, P)]
          /\ resp' = Response("disconnect", s, P, 200, "", <<>>, [success |-> TRUE])
     ELSE /\ resp' = Unauthorized("disconnect", s, P)
          /\ UNCHANGED <<users, sessions>>
  /\ UNCHANGED <<flows, inflight, linked, attempt>>

\* POST /api/<P>/disconnect
Disconnect(s, P) ==
  /\ Tick
  /\ IF IsAuthenticated(s)
     THEN /\ users' = UpdateCredential(users, sessions[s].user, P, ClearedCredential(P))
          /\ resp' = Response("disconnect", s, P, 200, "", <<>>, [success |-> TRUE])
     ELSE /\ resp' = Unauthorized("disconnect", s, P)
          /\ UNCHANGED users
  /\ UNCHANGED <<sessions, flows, inflight, linked, attempt>>

\* (mutant) the status route reports every provider as not connected
StatusBodyDisconnected(user, P) ==
  IF P = "slack"
  THEN [ connected |-> FALSE, teamName |-> user[P].teamName, username |-> user[P].username ]
  ELSE [ connected |-> FALSE, email |-> user[P].email ]

\* the body of GET /api/<P>/status for a user document
StatusBody(user, P) ==
  IF P = "slack"
  THEN [ connected |-> user[P].connected, teamName |-> user[P].teamName,
         username |-> user[P].username ]
  ELSE [ connected |-> user[P].connected, email |-> user[P].email ]

\* GET /api/<P>/status
Status(s, P) ==
  /\ Tick
  /\ resp' = IF IsAuthenticated(s)
             THEN Response("status", s, P, 200, "", <<>>, StatusBody(users[sessions[s].user], P))
             ELSE Unauthorized("status", s, P)
  /\ UNCHANGED <<users, sessions, flows, inflight, linked, attempt>>

\* ------------------------------------------------------------------ listing
ListOutcomes == {"ok", "unauthorized", "failure"}

\* the status of a listing whose first call to the provider ended `outcome`
ListStatus(P, outcome) ==
  CASE outcome = "ok" -> 200
    [] outcome = "unauthorized" -> IF P = "slack" THEN 400 ELSE 401
    [] outcome = "failure" -> 500

\* (mutant) the listing route calls the provider without the connected guard
ListNoGuard(s, P, outcome) ==
  /\ Tick
  /\ resp' = IF ~IsAuthenticated(s) THEN Unauthorized("list", s, P)
             ELSE Response("list", s, P, ListStatus(P, outcome), "", <<>>,
                           [error |-> outcome])
  /\ UNCHANGED <<users, sessions, flows, inflight, linked, attempt>>

\* GET /api/google-calendar/events, /api/gmail/emails, /api/slack/channels
List(s, P, outcome) ==
  /\ Tick
  /\ resp' = IF ~IsAuthenticated(s) THEN Unauthorized("list", s, P)
             ELSE LET user == users[sessions[s].user]
                  IN IF ~user[P].connected \/ user[P].accessToken = Null
                     THEN Response("list", s, P, 400, "", <<>>, [error |-> "not connected"])
                     ELSE Response("list", s, P, ListStatus(P, outcome), "", <<>>,
                                   [error |-> outcome])
  /\ UNCHANGED <<users, sessions, flows, inflight, linked, attempt>>

\* GET /api/github/repos, /issues, /pull-requests
GithubList(s, outcome) ==
  /\ Tick
  /\ resp' = IF ~IsAuthenticated(s) THEN Unauthorized("list", s, "github")
             ELSE IF users[sessions[s].user].accessToken = Null
                  THEN Response("list", s, "github", 400, "", <<>>, [error |-> "not connected"])
                  ELSE Response("list", s, "github", ListStatus("github", outcome), "", <<>>,
                                [error |-> outcome])
  /\ UNCHANGED <<users, sessions, flows, inflight, linked, attempt>>

\* ------------------------------------------------- GET /events, step by step
\* a || b of JavaScript for a field that is a string or missing
OrElse(a, b) == IF a \in {Null, ""} THEN b ELSE a

\* the sequences over S of length up to n
SeqsUpTo(S, n) == UNION {[1..k -> S] : k \in 0..n}

\* events as the Calendar API returns them: a timed event with every field
\* set, and an all-day event without summary, description, location, colour
SampleEvents ==
  { [ id |-> "ev-1", summary |-> "standup",
      start |-> [dateTime |-> "09:00", date |-> Null],
      end |-> [dateTime |-> "09:30", date |-> Null],
      description |-> "daily", location |-> "room 1", colorId |-> "5" ],
    [ id |-> "ev-2", summary |-> Null,
      start |-> [dateTime |-> Null, date |-> "06-21"],
      end |-> [dateTime |-> Null, date |-> "06-22"],
      description |-> Null, location |-> Null, colorId |-> Null ] }

\* what calendar.events.list of one calendar ends with: a rejection with a
\* code, or a response whose data.items is missing or a list of events
CalendarOutcomes ==
  {[ok |-> FALSE, code |-> c, hasItems |-> FALSE, items |-> <<>>] : c \in {401, 500}}
    \cup {[ok |-> TRUE, code |-> 200, hasItems |-> FALSE, items |-> <<>>]}
    \cup {[ok |-> TRUE, code |-> 200, hasItems |-> TRUE, items |-> q] :
            q \in SeqsUpTo(SampleEvents, MaxItems)}

\* what calendar.calendarList.list ends with: a rejection, or the calendars,
\* each given by what its events request will end with
CalendarLists ==
  {[ok |-> FALSE, code |-> c, items |-> <<>>] : c \in {401, 500}}
    \cup {[ok |-> TRUE, code |-> 200, items |-> q] :
            q \in SeqsUpTo(CalendarOutcomes, MaxCalendars)}

\* a promise that has not settled
Unsettled == [ settled |-> FALSE, rejected |-> FALSE, code |-> 0, items |-> <<>> ]

\* (mutant) the per-calendar function lets the rejection of events.list through
CalendarEventsNoCatch(c) ==
  IF c.ok
  THEN [ settled |-> TRUE, rejected |-> FALSE, code |-> 0,
         items |-> IF c.hasItems THEN c.items ELSE <<>> ]
  ELSE [ settled |-> TRUE, rejected |-> TRUE, code |-> c.code, items |-> <<>> ]

\* the promise of the per-calendar async function once events.list has ended:
\* response.data.items || [], and [] from the catch
CalendarEvents(c) ==
  IF c.ok
  THEN [ settled |-> TRUE, rejected |-> FALSE, code |-> 0,
         items |-> IF c.hasItems THEN c.items ELSE <<>> ]
  ELSE [ settled |-> TRUE, rejected |-> FALSE, code |-> 0, items |-> <<>> ]

\* calendarResults.flat()
RECURSIVE Flat(_)
Flat(results) ==
  IF results = <<>> THEN <<>> ELSE Head(results).items \o Flat(Tail(results))

\* one formatted event
FormatEvent(event) ==
  [ id |-> event.id,
    title |-> OrElse(event.summary, "No title"),
    start |-> OrElse(event.start.dateTime, event.start.date),
    end |-> OrElse(event.end.dateTime, event.end.date),
    isAllDay |-> event.start.dateTime \in {Null, ""},
    description |-> OrElse(event.description, ""),
    location |-> OrElse(event.location, ""),
    color |-> OrElse(event.colorId, "default") ]

\* allEvents.map(event => ({...}))
FormatEvents(events) == [i \in 1..Len(events) |-> FormatEvent(events[i])]

\* the answer of the outer catch of a listing route
ListError(op, s, P, code) ==
  IF code = 401
  THEN Response(op, s, P, 401, "", <<>>, [error |-> "Authentication expired"])
  ELSE Response(op, s, P, 500, "", <<>>, [error |-> "Failed to fetch"])

\* the listing guard: the provider is connected and has an access token
IsLinked(user, P) == user[P].connected /\ user[P].accessToken # Null

\* GET /api/google-calendar/events up to `await Promise.all`: requireAuth, the
\* guard, calendarList.list, and one events.list request per calendar
EventsStart(s, list) ==
  /\ Step
  /\ fetch.kind \in {"none", "events-answered", "emails-answered"}
  /\ IF ~IsAuthenticated(s)
     THEN resp' = Unauthorized("events", s, "googleCalendar") /\ fetch' = NoFetch
     ELSE IF ~IsLinked(users[sessions[s].user], "googleCalendar")
     THEN /\ resp' = Response("events", s, "googleCalendar", 400, "", <<>>,
                              [error |-> "Google Calendar not connected"])
          /\ fetch' = NoFetch
     ELSE IF ~list.ok
     THEN /\ resp' = ListError("events", s, "googleCalendar", list.code)
          /\ fetch' = NoFetch
     ELSE /\ fetch' = [ kind |-> "events", session |-> s, calendars |-> list.items,
                        results |-> [i \in 1..Len(list.items) |-> Unsettled],
                        order |-> <<>> ]
          /\ UNCHANGED resp
  /\ UNCHANGED <<users, sessions, flows, inflight, linked, attempt, verifying>>

\* (mutant) the results are collected in the order in which the requests end
CalendarSettlesInArrivalOrder(i) ==
  /\ Step
  /\ fetch.kind = "events"
  /\ i \in 1..Len(fetch.calendars)
  /\ \A k \in 1..Len(fetch.order) : fetch.order[k] # i
  /\ fetch' = [fetch EXCEPT !.results[Len(fetch.order) + 1] = CalendarEvents(fetch.calendars[i]),
                            !.order = Append(@, i)]
  /\ UNCHANGED <<users, sessions, flows, inflight, linked, attempt, verifying, resp>>

\* the events.list request of calendar i ends; the requests end in any order
\* (fetch.order records it), and each promise keeps its place in
\* calendarPromises
CalendarSettles(i) ==
  /\ Step
  /\ fetch.kind = "events"
  /\ i \in 1..Len(fetch.calendars)
  /\ ~fetch.results[i].settled
  /\ fetch' = [fetch EXCEPT !.results[i] = CalendarEvents(fetch.calendars[i]),
                            !.order = Append(@, i)]
  /\ UNCHANGED <<users, sessions, flows, inflight, linked, attempt, verifying, resp>>

\* Promise.all has settled: it rejects with the first rejection, and resolves
\* when every promise has resolved; then the events are merged and sent
EventsRespond ==
  /\ Step
  /\ fetch.kind = "events"
  /\ LET n == Len(fetch.calendars)
         rejected == {i \in 1..n : fetch.results[i].rejected}
     IN IF rejected # {}
        THEN \E i \in rejected :
               resp' = ListError("events", fetch.session, "googleCalendar",
                                 fetch.results[i].code)
        ELSE /\ \A i \in 1..n : fetch.results[i].settled
             /\ resp' = Response("events", fetch.session, "googleCalendar", 200, "", <<>>,
                                 [events |-> FormatEvents(Flat(fetch.results))])
  /\ fetch' = [fetch EXCEPT !.kind = "events-answered"]
  /\ UNCHANGED <<users, sessions, flows, inflight, linked, attempt, verifying>>

\* Account 1 is logged in in session 1 and has, or has not, linked the provider
\* P; session 2 is not logged in.  The clock starts here.
InitLinked(P, isLinked) ==
  /\ active = {P}
  /\ now = 0
  /\ users = << IF isLinked
                THEN [NewUser(1, "gh-at-1") EXCEPT ![P] = LinkedCredential(P, AuthData(1), 0)]
                ELSE NewUser(1, "gh-at-1") >>
  /\ sessions = [s \in Sessions |-> IF s = 1 THEN [NewSession EXCEPT !.user = 1] ELSE NewSession]
  /\ flows = IF isLinked THEN {<<P, 1>>} ELSE {}
  /\ inflight = {}
  /\ linked = [s \in Sessions |-> [Q \in Providers |-> IF isLinked /\ s = 1 /\ Q = P THEN 1 ELSE 0]]
  /\ resp = [ at |-> 0, op |-> "none", session |-> NoId, provider |-> "", status |-> 0,
              location |-> "", query |-> <<>>, body |-> [error |-> ""] ]
  /\ attempt = [s \in Sessions |-> [Q \in Providers |-> "none"]]
  /\ fetch = NoFetch
  /\ verifying = {}
  /\ browser = NoBrowser

InitEvents == \E isLinked \in BOOLEAN : InitLinked("googleCalendar", isLinked)

NextEvents ==
  \/ \E s \in Sessions, list \in CalendarLists : EventsStart(s, list)
  \/ \E i \in 1..MaxCalendars : CalendarSettles(i)
  \/ EventsRespond

\* the events listing of an account, request by request
SpecEvents == InitEvents /\ [][NextEvents]_vars

\* ------------------------------------------------- GET /emails, step by step
\* new Date(date).toISOString() for the Date header values of the sample
\* messages; a value that is no date (the empty string of a missing header
\* included) makes toISOString throw a RangeError
InvalidDate == "RangeError: Invalid time value"

ToISOString(date) ==
  CASE date = "Mon, 02 Jun 2025 10:00:00 +0000" -> "2025-06-02T10:00:00.000Z"
    [] date = "Tue, 03 Jun 2025 08:30:00 +0200" -> "2025-06-03T06:30:00.000Z"
    [] OTHER -> InvalidDate

\* from.match(/^(.+?)\s*<(.+?)>$/) || from.match(/^(.+)$/) for the From header
\* values of the sample messages: the groups 1 and 2 ("" for a group that did
\* not take part), or no match for the empty string
FromMatch(from) ==
  CASE from = "\"Ann Lee\" <ann@example.org>" ->
         [ matched |-> TRUE, g1 |-> "\"Ann Lee\"", g2 |-> "ann@example.org" ]
    [] from = "" -> [ matched |-> FALSE, g1 |-> "", g2 |-> "" ]
    [] OTHER -> [ matched |-> TRUE, g1 |-> from, g2 |-> "" ]

\* s.replace(/"/g, '').trim() for the sample values
Unquote(s) == IF s = "\"Ann Lee\"" THEN "Ann Lee" ELSE s

\* messages as users.messages.get returns them (a missing header is null): a
\* message with every header and both labels, one with a bare address, no
\* subject and no labels, and one without a Date header
SampleMessages ==
  { [ id |-> "msg-1", subject |-> "hello", from |-> "\"Ann Lee\" <ann@example.org>",
      date |-> "Mon, 02 Jun 2025 10:00:00 +0000", snippet |-> "hi there",
      hasLabels |-> TRUE, labelIds |-> {"INBOX", "UNREAD", "IMPORTANT"} ],
    [ id |-> "msg-2", subject |-> Null, from |-> "bob@example.org",
      date |-> "Tue, 03 Jun 2025 08:30:00 +0200", snippet |-> Null,
      hasLabels |-> FALSE, labelIds |-> {} ],
    [ id |-> "msg-3", subject |-> "no date", from |-> "bob@example.org",
      date |-> Null, snippet |-> "draft",
      hasLabels |-> TRUE, labelIds |-> {"INBOX"} ] }

\* what users.messages.get of one listed message ends with
MessageOutcomes ==
  {[ok |-> FALSE, code |-> c, data |-> Null] : c \in {401, 500}}
    \cup {[ok |-> TRUE, code |-> 200, data |-> m] : m \in SampleMessages}

\* what users.messages.list ends with: a rejection, or the listed messages
\* (data.messages || []), each given by what its detail request will end with
MessageLists ==
  {[ok |-> FALSE, code |-> c, items |-> <<>>] : c \in {401, 500}}
    \cup {[ok |-> TRUE, code |-> 200, items |-> q] :
            q \in SeqsUpTo(MessageOutcomes, MaxMessages)}

\* the object pushed for a message
FormatEmail(data) ==
  LET from == OrElse(data.from, "")
      m == FromMatch(from)
      fromName == IF m.matched THEN Unquote(m.g1) ELSE ""
      fromEmail == IF m.matched /\ m.g2 # "" THEN m.g2 ELSE from
  IN [ id |-> data.id,
       subject |-> OrElse(data.subject, ""),
       from |-> [ name |-> OrElse(fromName, fromEmail), email |-> fromEmail ],
       snippet |-> OrElse(data.snippet, ""),
       date |-> ToISOString(OrElse(data.date, "")),
       isRead |-> ~(data.hasLabels /\ "UNREAD" \in data.labelIds),
       isImportant |-> data.hasLabels /\ "IMPORTANT" \in data.labelIds ]

\* the body of the loop for one listed message: the try pushes the formatted
\* message; a rejection of messages.get, or an exception while formatting, is
\* caught and logged and pushes nothing
PushEmail(emails, m) ==
  IF m.ok /\ ToISOString(OrElse(m.data.date, "")) # InvalidDate
  THEN Append(emails, FormatEmail(m.data))
  ELSE emails

\* GET /api/gmail/emails up to the loop: requireAuth, the guard, messages.list
EmailsStart(s, list) ==
  /\ Step
  /\ fetch.kind \in {"none", "events-answered", "emails-answered"}
  /\ IF ~IsAuthenticated(s)
     THEN resp' = Unauthorized("emails", s, "gmail") /\ fetch' = NoFetch
     ELSE IF ~IsLinked(users[sessions[s].user], "gmail")
     THEN /\ resp' = Response("emails", s, "gmail", 400, "", <<>>,
                              [error |-> "Gmail not connected"])
          /\ fetch' = NoFetch
     ELSE IF ~list.ok
     THEN /\ resp' = ListError("emails", s, "gmail", list.code)
          /\ fetch' = NoFetch
     ELSE /\ fetch' = [ kind |-> "emails", session |-> s, messages |-> list.items,
                        next |-> 1, emails |-> <<>> ]
          /\ UNCHANGED resp
  /\ UNCHANGED <<users, sessions, flows, inflight, linked, attempt, verifying>>

\* one turn of the loop: messages.get of the next listed message has ended
MessageFetched ==
  /\ Step
  /\ fetch.kind = "emails"
  /\ fetch.next <= Len(fetch.messages)
  /\ fetch' = [fetch EXCEPT !.emails = PushEmail(@, fetch.messages[fetch.next]),
                            !.next = @ + 1]
  /\ UNCHANGED <<users, sessions, flows, inflight, linked, attempt, verifying, resp>>

\* after the loop: res.json({ emails })
EmailsRespond ==
  /\ Step
  /\ fetch.kind = "emails"
  /\ fetch.next > Len(fetch.messages)
  /\ resp' = Response("emails", fetch.session, "gmail", 200, "", <<>>,
                      [emails |-> fetch.emails])
  /\ fetch' = [fetch EXCEPT !.kind = "emails-answered"]
  /\ UNCHANGED <<users, sessions, flows, inflight, linked, attempt, verifying>>

InitEmails == \E isLinked \in BOOLEAN : InitLinked("gmail", isLinked)

NextEmails ==
  \/ \E s \in Sessions, list \in MessageLists : EmailsStart(s, list)
  \/ MessageFetched
  \/ EmailsRespond

\* the mail listing of an account, request by request
SpecEmails == InitEmails /\ [][NextEmails]_vars

\* ------------------------------------------- the GitHub login, step by step
\* (mutant) the users collection has no unique index on githubId
InsertAllowedNoIndex(us, profile) == TRUE

\* githubId is declared unique: the insert of a second document with the same
\* githubId is rejected
InsertAllowed(us, profile) == \A i \in 1..Len(us) : us[i].githubId # profile

\* GET /auth/github/callback up to the first await of the verify callback: the
\* code is exchanged and User.findOne({ githubId }) has answered
LoginFind(s, profile) ==
  /\ Step
  /\ Cardinality(verifying) < MaxVerifying
  /\ LET found == FindByGithubId(profile)
     IN verifying' = verifying \cup
          {[ at |-> now, session |-> s, profile |-> profile, found |-> found,
             token |-> IssuedGithubToken(IF found # NoId THEN users[found].accessToken
                                         ELSE Null) ]}
  /\ UNCHANGED <<users, sessions, flows, inflight, linked, attempt, fetch, resp>>

\* the rest of the verify callback and of the route: the tokens of the user
\* that was found are saved, or a new user is inserted; then the session is
\* logged in and the client redirected.  A rejected insert ends in
\* done(error): the request is answered with an error and logs nobody in.
LoginSave(v, keep) ==
  /\ Step
  /\ verifying' = verifying \ {v}
  /\ IF v.found # NoId
     THEN /\ users' = [users EXCEPT ![v.found].accessToken = v.token,
                                    ![v.found].refreshToken = Null]
          /\ sessions' = [sessions EXCEPT ![v.session] = SessionAfterAuth(@, v.found, keep)]
          /\ resp' = Response("login", v.session, "", 302, "client/dashboard", <<>>,
                              [error |-> ""])
     ELSE IF InsertAllowed(users, v.profile)
     THEN /\ users' = Append(users, NewUser(v.profile, v.token))
          /\ sessions' = [sessions EXCEPT ![v.session] =
                            SessionAfterAuth(@, Len(users) + 1, keep)]
          /\ resp' = Response("login", v.session, "", 302, "client/dashboard", <<>>,
                              [error |-> ""])
     ELSE /\ resp' = Response("login", v.session, "", 500, "", <<>>,
                              [error |-> "duplicate key"])
          /\ UNCHANGED <<users, sessions>>
  /\ UNCHANGED <<flows, inflight, linked, attempt, fetch>>

\* logins that overlap, with the requests that write accounts or sessions
NextConcurrentLogin ==
  \/ \E s \in Sessions, p \in Profiles : LoginFind(s, p)
  \/ \E v \in verifying, keep \in BOOLEAN : LoginSave(v, keep)
  \/ \E s \in Sessions, keep \in BOOLEAN : Logout(s, keep)
  \/ \E s \in Sessions, P \in active : Connect(s, P)
  \/ \E s \in Sessions, P \in active : \E in \in CallbackInputs(P) : CallbackHandle(s, P, in)
  \/ \E r \in inflight : CallbackPersist(r)
  \/ \E s \in Sessions, P \in active : Disconnect(s, P)

SpecConcurrentLogin == Init /\ [][NextConcurrentLogin]_vars

\* ------------------------------------------------------------ specification
\* the requests of the browser sessions S, and the completion of callbacks
NextIn(S) ==
  \/ \E s \in S, p \in Profiles, keep \in BOOLEAN : Login(s, p, keep)
  \/ \E s \in S, keep \in BOOLEAN : Logout(s, keep)
  \/ \E s \in S, P \in active : Connect(s, P)
  \/ \E s \in S, P \in active : \E in \in CallbackInputs(P) : CallbackHandle(s, P, in)
  \/ \E r \in inflight : CallbackPersist(r)
  \/ \E s \in S, P \in active : Disconnect(s, P)
  \/ \E s \in S, P \in active : Status(s, P)
  \/ \E s \in S, P \in active, o \in ListOutcomes : List(s, P, o)
  \/ \E s \in S, o \in ListOutcomes : GithubList(s, o)

Next == NextIn(Sessions)

Spec == Init /\ [][Next]_vars

\* the client uses one provider more than in Init, so that the flows of two
\* providers overlap in one behaviour
InitTwoProviders ==
  /\ active \in {A \in SUBSET Providers : Cardinality(A) = MaxProviders + 1}
  /\ now = 0
  /\ users = <<>>
  /\ sessions = [s \in Sessions |-> NewSession]
  /\ flows = {}
  /\ inflight = {}
  /\ linked = [s \in Sessions |-> [P \in Providers |-> 0]]
  /\ resp = [ at |-> 0, op |-> "none", session |-> NoId, provider |-> "", status |-> 0,
              location |-> "", query |-> <<>>, body |-> [error |-> ""] ]
  /\ attempt = [s \in Sessions |-> [P \in Providers |-> "none"]]
  /\ fetch = NoFetch
  /\ verifying = {}
  /\ browser = NoBrowser


\* every request comes from one browser session
NextOneSession == NextIn({1})

SpecOneSession == Init /\ [][NextOneSession]_vars

\* one browser session that uses two providers
SpecTwoProviders == InitTwoProviders /\ [][NextOneSession]_vars

\* one browser session, with a database that may reject a credential write
NextWriteFailure ==
  \/ NextOneSession
  \/ \E r \in inflight : CallbackPersistFails(r)

SpecWriteFailure == Init /\ [][NextWriteFailure]_vars

\* ==================================================================== claims
\* The response of the step just taken is a callback redirect for (s, P).
CallbackAnswered(s, P) ==
  /\ resp.op = "callback" /\ resp.at = now
  /\ resp.session = s /\ resp.provider = P

\* C1: a credential obtained from a grant that the provider issued for a flow
\* started by account A is persisted only onto account A: every stored access
\* token is the token of a grant of the flow of the account that holds it.
C1_GrantPersistedOnlyOntoItsAccount ==
  \A b \in Ids, P \in Providers :
    users[b][P].connected => users[b][P].accessToken = AccessTokens[b]

\* C2: connect(account, P) followed immediately by callback(P, validGrant) in
\* the same session leaves the account's credential for P connected with the
\* tokens of that grant, and leaves no stash entry for (session, P).  The
\* premise reads: the last response is the connect redirect for (s, P), sent
\* one request ago, the one request since is the callback r of (s, P), and
\* this step completes r.
C2_ConnectThenCallbackLinks ==
  [][ \A r \in inflight :
        ( /\ resp.op = "connect" /\ resp.status = 302 /\ resp.at = now - 1
          /\ resp.session = r.session /\ resp.provider = r.provider
          /\ r.at = now - 1
          /\ now' = now + 1
          /\ r \notin inflight' )
        => LET a == sessions[r.session].user
               c == users'[a][r.provider]
           IN /\ a = r.userId
              /\ c.connected = TRUE
              /\ c.accessToken = r.authData.accessToken
              /\ r.provider # "slack" => c.refreshToken = r.authData.refreshToken
              /\ sessions'[r.session][PendingKey(r.provider)] = NoId
              /\ resp'.op = "callback" /\ resp'.query = <<<<"connected", ConnectedName(r.provider)>>>>
    ]_vars

\* C2 witness: a callback has just linked the account of the session, one
\* credential write after the connect, and the stash entry is gone.
C2_Witness ==
  \E s \in Sessions, P \in Providers :
    /\ CallbackAnswered(s, P)
    /\ resp.query = <<<<"connected", ConnectedName(P)>>>>
    /\ linked[s][P] = 1
    /\ IsAuthenticated(s)
    /\ users[sessions[s].user][P].connected
    /\ users[sessions[s].user][P].expiresAt =
         (now - 2) + (IF P = "slack" THEN SlackExpiryMs ELSE GoogleExpiryMs)
    /\ sessions[s][PendingKey(P)] = NoId

\* C3: after every callback for provider P that is answered, whatever its
\* outcome, no stash entry for (session, P) remains.
C3_StashDeletedAfterEveryCallback ==
  \A s \in Sessions, P \in Providers :
    CallbackAnswered(s, P) => sessions[s][PendingKey(P)] = NoId

\* C4: callback(P, validGrant) arriving in a session that holds no stash entry
\* for P ends in the failed outcome (a redirect with an error marker), starts
\* no credential write and changes no account record.
C4_CallbackWithoutStashFails ==
  [][ \A s \in Sessions, P \in Providers : \A in \in CallbackInputs(P) :
        ( /\ ~in.err /\ in.authData # NoAuthData
          /\ sessions[s][PendingKey(P)] = NoId
          /\ CallbackHandle(s, P, in) )
        => /\ users' = users
           /\ inflight' = inflight
           /\ resp'.op = "callback" /\ resp'.at = now'
           /\ resp'.session = s /\ resp'.provider = P
           /\ resp'.status = 302
           /\ resp'.query = <<<<"error", "no_user">>>>
    ]_vars

\* C4 witness: a callback was just answered error=no_user in a session without
\* a stash entry, while the provider had a flow of that provider to grant.
C4_Witness ==
  \E s \in Sessions, P \in Providers :
    /\ CallbackAnswered(s, P)
    /\ resp.query = <<<<"error", "no_user">>>>
    /\ sessions[s][PendingKey(P)] = NoId
    /\ \E f \in flows : f[1] = P

\* C5: a stash entry is consumed exactly once: after a single connect(account,
\* P) at most one callback results in a credential write, also when two
\* callbacks of the same (session, P) are processed concurrently.
C5_StashConsumedOnce ==
  \A s \in Sessions, P \in Providers : linked[s][P] <= 1

\* C6: a callback that fails because the provider reported an error, because
\* no authorization data was returned, or because the token exchange failed
\* never writes a credential field: no account record changes, no credential
\* write is started, and the client is redirected with the error.
C6_FailedCallbackWritesNothing ==
  [][ \A s \in Sessions, P \in Providers : \A in \in CallbackInputs(P) :
        ( /\ in.err \/ in.authData = NoAuthData
          /\ CallbackHandle(s, P, in) )
        => /\ users' = users
           /\ inflight' = inflight
           /\ resp'.op = "callback" /\ resp'.at = now'
           /\ resp'.session = s /\ resp'.provider = P
           /\ resp'.query = <<<<"error", IF in.err THEN "oauth_error" ELSE "no_auth_data">>>>
    ]_vars

\* C6 witness: a callback was just answered with a provider error or with
\* missing authorization data while the session held a stash entry naming an
\* account.
C6_Witness ==
  \E s \in Sessions, P \in Providers :
    /\ CallbackAnswered(s, P)
    /\ resp.query \in {<<<<"error", "oauth_error">>>>, <<<<"error", "no_auth_data">>>>}
    /\ sessions[s][PendingKey(P)] \in Ids

\* C7: a session holds one stash slot per provider, and a second connect
\* (account, P) before any callback replaces the value of the slot of
\* (session, P) with the id of the account that issued it, leaving the rest of
\* the session as it was.
C7_SecondConnectOverwritesStash ==
  [][ \A s \in Sessions, P \in Providers :
        ( /\ IsAuthenticated(s)
          /\ sessions[s][PendingKey(P)] # NoId
          /\ Connect(s, P) )
        => /\ DOMAIN sessions'[s] = DOMAIN NewSession
           /\ sessions'[s][PendingKey(P)] = sessions[s].user
           /\ \A k \in DOMAIN NewSession \ {PendingKey(P)} : sessions'[s][k] = sessions[s][k]
           /\ \A o \in Sessions \ {s} : sessions'[o] = sessions[o]
    ]_vars

\* C7 witness: the session's account has just connected P, the slot names it,
\* and another account had started a flow for P before.
C7_Witness ==
  \E s \in Sessions, P \in Providers :
    /\ resp.op = "connect" /\ resp.at = now /\ resp.status = 302
    /\ resp.session = s /\ resp.provider = P
    /\ sessions[s][PendingKey(P)] = sessions[s].user
    /\ \E f \in flows : f[1] = P /\ f[2] # sessions[s].user
    /\ linked[s][P] = 0

\* every credential field of c is cleared
IsCleared(c) ==
  /\ c.connected = FALSE
  /\ c.expiresAt = NullDate
  /\ \A f \in DOMAIN c \ {"connected", "expiresAt"} : c[f] = Null

\* C8: disconnect(account, P) is idempotent: it reports success and leaves the
\* credential of P with connected = false and every field cleared, and a
\* disconnect that directly follows a disconnect of the same (session, P)
\* reports success too and leaves the account records as they were.
C8_DisconnectIdempotent ==
  [][ \A s \in Sessions, P \in Providers :
        ( IsAuthenticated(s) /\ Disconnect(s, P) )
        => /\ IsCleared(users'[sessions[s].user][P])
           /\ resp'.op = "disconnect" /\ resp'.status = 200 /\ resp'.body.success = TRUE
           /\ \A a \in Ids, Q \in Providers :
                (a # sessions[s].user \/ Q # P) => users'[a][Q] = users[a][Q]
           /\ ( /\ resp.op = "disconnect" /\ resp.at = now /\ resp.status = 200
                /\ resp.session = s /\ resp.provider = P )
              => users' = users
    ]_vars

\* C8 witness: an account that a callback had linked was just disconnected.
C8_Witness ==
  \E s \in Sessions, P \in Providers :
    /\ resp.op = "disconnect" /\ resp.at = now /\ resp.status = 200
    /\ resp.session = s /\ resp.provider = P
    /\ linked[s][P] = 1
    /\ <<P, sessions[s].user>> \in flows
    /\ IsCleared(users[sessions[s].user][P])

\* C9: status, connect, disconnect and the listing endpoints, called on a
\* session with no authenticated account, answer 401 and change neither the
\* session store nor any account record; the callback is processed without an
\* authenticated session (it is answered with a redirect, never with 401).
C9_UnauthenticatedRejected ==
  [][ \A s \in Sessions :
        ~IsAuthenticated(s) =>
          /\ ( \/ \E P \in Providers : Status(s, P) \/ Connect(s, P) \/ Disconnect(s, P)
               \/ \E P \in Providers, o \in ListOutcomes : List(s, P, o)
               \/ \E o \in ListOutcomes : GithubList(s, o) )
             => /\ resp'.status = 401 /\ resp'.at = now' /\ resp'.session = s
                /\ sessions' = sessions
                /\ users' = users
                /\ flows' = flows /\ inflight' = inflight
          /\ ( \E P \in Providers : \E in \in CallbackInputs(P) : CallbackHandle(s, P, in) )
             => \/ /\ resp'.op = "callback" /\ resp'.at = now' /\ resp'.status = 302
                \/ inflight' # inflight
    ]_vars

\* C9 witness: a request on a session without an account was just refused.
C9_Witness ==
  /\ resp.status = 401 /\ resp.at = now
  /\ resp.op \in {"status", "connect", "disconnect", "list"}
  /\ ~IsAuthenticated(resp.session)
  /\ Len(users) > 0

\* C10: every redirect issued by a callback carries exactly one status query
\* parameter, connected=<provider> or error=<reason> with the reason one of a
\* fixed set of codes; no access token, refresh token or authorization code is
\* part of the redirect URL.
C10_RedirectCarriesOnlyStatus ==
  resp.op = "callback" =>
    /\ resp.status = 302
    /\ resp.location = "client/dashboard"
    /\ Len(resp.query) = 1
    /\ \/ /\ resp.query[1][1] = "connected"
          /\ <<resp.provider, resp.query[1][2]>> \in
               { <<"googleCalendar", "google-calendar">>, <<"gmail", "gmail">>,
                 <<"slack", "slack">> }
       \/ /\ resp.query[1][1] = "error"
          /\ resp.query[1][2] \in
               { "oauth_error", "no_auth_data", "no_user",
                 "calendar_setup", "gmail_setup", "slack_setup" }
    /\ \A i \in 1..Len(AccessTokens) :
         resp.query[1][2] \notin {AccessTokens[i], RefreshTokens[i], AuthCodes[i]}

\* C10 witness: the success redirect of a callback that stored tokens.
C10_Witness ==
  \E P \in Providers :
    /\ CallbackAnswered(resp.session, P)
    /\ resp.query = <<<<"connected", ConnectedName(P)>>>>
    /\ \E a \in Ids : users[a][P].accessToken \in {AccessTokens[i] : i \in 1..Len(AccessTokens)}

\* C11: the lifecycle as the status endpoint shows it.  After connect followed
\* by a valid callback in the session the status endpoint reports connected:
\* true for the account; after a successful disconnect it reports connected:
\* false; and every answer of the status endpoint carries the connected flag
\* stored on the authenticated account for that provider.
C11_StatusFollowsLifecycle ==
  [][ /\ \A r \in inflight :
           ( /\ resp.op = "connect" /\ resp.status = 302 /\ resp.at = now - 1
             /\ resp.session = r.session /\ resp.provider = r.provider
             /\ r.at = now - 1
             /\ now' = now + 1
             /\ r \notin inflight' )
           => StatusBody(users'[sessions'[r.session].user], r.provider).connected = TRUE
      /\ \A s \in Sessions, P \in Providers :
           ( IsAuthenticated(s) /\ Disconnect(s, P) )
           => StatusBody(users'[sessions'[s].user], P).connected = FALSE
      /\ \A s \in Sessions, P \in Providers :
           ( IsAuthenticated(s) /\ Status(s, P) )
           => /\ resp'.op = "status" /\ resp'.status = 200
              /\ resp'.body.connected = users[sessions[s].user][P].connected
    ]_vars

\* C11 witness: the end of the lifecycle: the status endpoint has just
\* reported connected: false for an account that a callback of this session
\* had linked and that was disconnected since.
C11_Witness ==
  \E s \in Sessions, P \in Providers :
    /\ resp.op = "status" /\ resp.at = now /\ resp.status = 200
    /\ resp.session = s /\ resp.provider = P
    /\ resp.body.connected = FALSE
    /\ linked[s][P] = 1
    /\ <<P, sessions[s].user>> \in flows
    /\ IsCleared(users[sessions[s].user][P])

\* the formatted events of the calendars whose events request succeeded, in
\* the order of the calendar list
RECURSIVE EventsOfSucceeded(_)
EventsOfSucceeded(calendars) ==
  IF calendars = <<>> THEN <<>>
  ELSE LET c == Head(calendars)
       IN (IF c.ok /\ c.hasItems THEN [i \in 1..Len(c.items) |-> FormatEvent(c.items[i])]
           ELSE <<>>) \o EventsOfSucceeded(Tail(calendars))

\* the events listing that was answered in the step just taken
EventsAnswered ==
  /\ fetch.kind = "events-answered"
  /\ resp.op = "events" /\ resp.at = now

\* C12: when the events of the calendars are requested concurrently and the
\* request of one or more calendars fails, the listing is answered with
\* success (200) and its events are exactly the events of the calendars whose
\* request succeeded; a failing calendar contributes nothing and never turns
\* the answer into an error.
C12_FailedCalendarIsolated ==
  EventsAnswered =>
    /\ resp.status = 200
    /\ resp.body.events = EventsOfSucceeded(fetch.calendars)

\* C12 witness: a listing over two calendars was answered, one calendar's
\* request was rejected and the other returned events.
C12_Witness ==
  /\ EventsAnswered
  /\ \E i, j \in 1..Len(fetch.calendars) :
       /\ ~fetch.calendars[i].ok
       /\ fetch.calendars[j].ok /\ fetch.calendars[j].items # <<>>
  /\ resp.status = 200
  /\ Len(resp.body.events) > 0

\* C13: when the listing calls against the provider's API are rejected as
\* unauthorized, the listing endpoint answers 401 "authentication expired";
\* for the calendar events: when the events request of every calendar is
\* rejected with 401, the listing is answered with 401.
C13_UnauthorizedSurfacesAs401 ==
  ( /\ EventsAnswered
    /\ Len(fetch.calendars) > 0
    /\ \A i \in 1..Len(fetch.calendars) :
         ~fetch.calendars[i].ok /\ fetch.calendars[i].code = 401 )
  => /\ resp.status = 401
     /\ resp.body.error = "Authentication expired"

\* C14: a failed attempt never blocks a new one.  Once a callback of (session,
\* P) has been answered with an error (provider error, missing authorization
\* data or missing stash), a later authenticated connect of P that is directly
\* followed by a callback with a valid grant in the same session ends in the
\* linked outcome for the account of the session: its credential of P is
\* connected and the client is redirected with connected=<provider>.
C14_FailureDoesNotBlockRetry ==
  [][ \A r \in inflight :
        ( /\ attempt[r.session][r.provider] = "retry"
          /\ resp.op = "connect" /\ resp.status = 302 /\ resp.at = now - 1
          /\ resp.session = r.session /\ resp.provider = r.provider
          /\ r.at = now - 1
          /\ now' = now + 1
          /\ r \notin inflight' )
        => /\ IsAuthenticated(r.session)
           /\ users'[sessions[r.session].user][r.provider].connected = TRUE
           /\ users'[sessions[r.session].user][r.provider].accessToken \in
                {AccessTokens[f[2]] : f \in {x \in flows : x[1] = r.provider}}
           /\ resp'.op = "callback" /\ resp'.at = now'
           /\ resp'.session = r.session /\ resp'.provider = r.provider
           /\ resp'.query[1][1] = "connected"
    ]_vars

\* C14 witness: a callback has just linked the account of the session; it was
\* handled in the request before, after a connect that followed a failed
\* callback of the same session and provider.
C14_Witness ==
  \E s \in Sessions, P \in Providers :
    /\ CallbackAnswered(s, P)
    /\ resp.query[1][1] = "connected"
    /\ attempt[s][P] = "retry"
    /\ linked[s][P] = 1
    /\ IsAuthenticated(s)
    /\ users[sessions[s].user][P].connected
    /\ users[sessions[s].user][P].expiresAt =
         (now - 2) + (IF P = "slack" THEN SlackExpiryMs ELSE GoogleExpiryMs)

\* C15: a callback with a valid grant fails and mutates no account when it
\* arrives in a session other than the one that ran the connect of the grant's
\* flow (the flow is pending in another session, not in this one), or when it
\* is replayed after the stash entry was consumed by a successful callback: it
\* is answered with an error redirect, starts no credential write, and the
\* stash entries of the other sessions stay as they were.
C15_ForeignOrReplayedCallbackFails ==
  [][ \A t \in Sessions, P \in Providers : \A in \in CallbackInputs(P) :
        ( /\ ~in.err /\ in.authData # NoAuthData
          /\ \/ /\ \E s \in Sessions \ {t} : sessions[s][PendingKey(P)] = in.authData.flow
                /\ sessions[t][PendingKey(P)] # in.authData.flow
             \/ /\ linked[t][P] >= 1
                /\ sessions[t][PendingKey(P)] = NoId
          /\ CallbackHandle(t, P, in) )
        => /\ users' = users
           /\ inflight' = inflight
           /\ resp'.op = "callback" /\ resp'.at = now'
           /\ resp'.session = t /\ resp'.provider = P
           /\ resp'.query[1][1] = "error"
           /\ \A s \in Sessions \ {t} : sessions'[s] = sessions[s]
    ]_vars

\* the last response is the success answer of disconnect for (s, P), sent at
\* time t
DisconnectAnswered(s, P, t) ==
  /\ resp.op = "disconnect" /\ resp.status = 200 /\ resp.at = t
  /\ resp.session = s /\ resp.provider = P

\* C16: disconnect(account, P) is independent of the linking state machine.
\* It changes only the credential of P on the calling account: every other
\* credential, the primary tokens, the set of accounts, every session (with
\* its stash entries, a pending entry for P included), the flows and the
\* pending credential writes stay as they were.  So a callback for P with a
\* valid grant that arrives directly after the disconnect in a session with a
\* pending entry is accepted, and its completion links the account the entry
\* names.
C16_DisconnectLeavesLinkingAlone ==
  [][ /\ \A s \in Sessions, P \in Providers :
           ( IsAuthenticated(s) /\ Disconnect(s, P) )
           => /\ sessions' = sessions
              /\ inflight' = inflight /\ flows' = flows
              /\ Len(users') = Len(users)
              /\ \A a \in Ids :
                   /\ users'[a].githubId = users[a].githubId
                   /\ users'[a].accessToken = users[a].accessToken
                   /\ users'[a].refreshToken = users[a].refreshToken
                   /\ \A Q \in Providers :
                        (a # sessions[s].user \/ Q # P) => users'[a][Q] = users[a][Q]
      /\ \A s \in Sessions, P \in Providers : \A in \in CallbackInputs(P) :
           ( /\ DisconnectAnswered(s, P, now)
             /\ sessions[s][PendingKey(P)] # NoId
             /\ ~in.err /\ in.authData # NoAuthData
             /\ CallbackHandle(s, P, in) )
           => \E r \in inflight' \ inflight :
                /\ r.session = s /\ r.provider = P
                /\ r.userId = sessions[s][PendingKey(P)]
      /\ \A r \in inflight :
           ( /\ DisconnectAnswered(r.session, r.provider, now - 1)
             /\ r.at = now - 1
             /\ now' = now + 1
             /\ r \notin inflight' )
           => /\ users'[r.userId][r.provider].connected = TRUE
              /\ users'[r.userId][r.provider].accessToken = r.authData.accessToken
              /\ resp'.op = "callback" /\ resp'.query[1][1] = "connected"
    ]_vars

\* C16 witness: the account of the session disconnected P while the session
\* held a pending entry for P naming it, the callback that arrived next was
\* accepted, and its credential write can complete.
C16_Witness ==
  \E r \in inflight :
    /\ DisconnectAnswered(r.session, r.provider, now - 1)
    /\ r.at = now - 1
    /\ r.userId = sessions[r.session].user
    /\ sessions[r.session][PendingKey(r.provider)] = r.userId
    /\ now < MaxNow

\* C17: connect(account, P) only writes the stash entry of (session, P) with
\* the id of the account and redirects to the provider.  It exchanges no
\* token and starts no credential write, and every account record
\* (credentials of all providers, connected flags, primary tokens) stays as
\* it was; the session keeps its user and its other stash entries.
C17_ConnectOnlyWritesStash ==
  [][ \A s \in Sessions, P \in Providers :
        Connect(s, P)
        => /\ users' = users
           /\ inflight' = inflight
           /\ \A t \in Sessions \ {s} : sessions'[t] = sessions[t]
           /\ \A k \in DOMAIN NewSession \ {PendingKey(P)} : sessions'[s][k] = sessions[s][k]
           /\ IF IsAuthenticated(s)
              THEN /\ sessions'[s][PendingKey(P)] = sessions[s].user
                   /\ resp'.op = "connect" /\ resp'.status = 302
                   /\ resp'.location = "provider/consent"
              ELSE /\ sessions' = sessions
                   /\ resp'.status = 401
    ]_vars

\* C17 witness: connect was just answered with the redirect to the provider
\* for an account that holds a linked credential of that provider.
C17_Witness ==
  \E s \in Sessions, P \in Providers :
    /\ resp.op = "connect" /\ resp.at = now /\ resp.status = 302
    /\ resp.session = s /\ resp.provider = P
    /\ sessions[s][PendingKey(P)] = sessions[s].user
    /\ users[sessions[s].user][P].connected
    /\ users[sessions[s].user][P].accessToken # Null

\* C18: the account lifecycle.  An account is created only by a login for a
\* GitHub id that no account holds yet, one account at a time; after any
\* sequence of logins (two concurrent first logins with the same GitHub id
\* included), links, disconnects, failed callbacks and logouts there is at
\* most one account per GitHub id; and no step removes an account or changes
\* the GitHub id of one.
C18_AccountLifecycle ==
  [][ /\ Len(users') >= Len(users)
      /\ \A a \in Ids : users'[a].githubId = users[a].githubId
      /\ Len(users') > Len(users)
         => /\ Len(users') = Len(users) + 1
            /\ \E v \in verifying \ verifying' :
                 /\ v.found = NoId
                 /\ users'[Len(users')].githubId = v.profile
                 /\ FindByGithubId(v.profile) = NoId
      /\ \A a, b \in 1..Len(users') :
           users'[a].githubId = users'[b].githubId => a = b
    ]_vars

\* C18 witness: of two concurrent first logins with the same GitHub id one has
\* created the account and the other was just refused.
C18_Witness ==
  /\ resp.op = "login" /\ resp.at = now /\ resp.status = 500
  /\ Len(users) = 1
  /\ verifying = {}

RECURSIVE IdsOfFetched(_)
IdsOfFetched(messages) ==
  IF messages = <<>> THEN <<>>
  ELSE (IF Head(messages).ok THEN <<Head(messages).data.id>> ELSE <<>>)
         \o IdsOfFetched(Tail(messages))

\* the mail listing that was answered in the step just taken
EmailsAnswered ==
  /\ fetch.kind = "emails-answered"
  /\ resp.op = "emails" /\ resp.at = now

\* C20: when mail is listed, a failure to fetch the details of a message never
\* fails the request: the listing is answered with success (200) and contains
\* exactly the messages whose detail fetch succeeded, in the order in which
\* the provider listed them.
C20_MailListsEveryFetchedMessage ==
  EmailsAnswered =>
    /\ resp.status = 200
    /\ [i \in 1..Len(resp.body.emails) |-> resp.body.emails[i].id]
         = IdsOfFetched(fetch.messages)

\* C21: every callback request is answered with exactly one redirect to the
\* client, also when the credential write fails (then with the error=
\* calendar_setup / gmail_setup / slack_setup redirect): a callback is
\* answered when it is handled or its credential write is awaited, and when
\* the awaited write ends, the step that ends it sends the redirect of that
\* callback.
C21_CallbackAlwaysAnswered ==
  [][ /\ \A s \in Sessions, P \in Providers : \A in \in CallbackInputs(P) :
           CallbackHandle(s, P, in)
           => \/ /\ resp'.op = "callback" /\ resp'.at = now' /\ resp'.status = 302
                 /\ resp'.session = s /\ resp'.provider = P
                 /\ inflight' = inflight
              \/ /\ resp' = resp
                 /\ \E r \in inflight' \ inflight : r.session = s /\ r.provider = P
      /\ \A r \in inflight :
           r \notin inflight'
           => /\ resp'.op = "callback" /\ resp'.at = now' /\ resp'.status = 302
              /\ resp'.session = r.session /\ resp'.provider = r.provider
              /\ resp'.location = "client/dashboard"
              /\ Len(resp'.query) = 1
    ]_vars

\* C22: in every reachable state the stored credential of every provider on
\* every account is consistent: connected = true implies that an access token
\* is stored, and a credential with connected = false (never linked, or
\* disconnected) holds no access token, refresh token, email or expiry (nor,
\* for Slack, a team or a member).
C22_CredentialConsistent ==
  \A a \in Ids, P \in Providers :
    /\ users[a][P].connected = TRUE => users[a][P].accessToken # "null"
    /\ users[a][P].connected = FALSE
       => /\ users[a][P].expiresAt = 0
          /\ \A f \in DOMAIN users[a][P] \ {"connected", "expiresAt"} :
               users[a][P][f] = "null"

\* C22 witness: one account holds a linked credential of P, and another
\* account, which a disconnect has just cleared, holds none.
C22_Witness ==
  \E a, b \in Ids, P \in Providers :
    /\ a # b
    /\ users[a][P].connected /\ users[a][P].accessToken = AccessTokens[a]
    /\ DisconnectAnswered(resp.session, P, now)
    /\ sessions[resp.session].user = b
    /\ ~users[b][P].connected

\* C23: a redirect carrying connected=<provider> is issued only after the
\* credential write of that provider has completed: the step that sends the
\* success redirect ends an awaited callback, and after it the account that the
\* stash named holds connected = true and the access token of that callback
\* for the provider of the redirect.
C23_SuccessRedirectAfterWrite ==
  [][ ( /\ resp'.op = "callback" /\ resp'.at = now'
        /\ resp'.query[1][1] = "connected" )
      => \E r \in inflight \ inflight' :
           /\ r.session = resp'.session /\ r.provider = resp'.provider
           /\ r.userId \in Ids
           /\ users'[r.userId][r.provider].connected = TRUE
           /\ users'[r.userId][r.provider].accessToken = r.authData.accessToken
    ]_vars

\* C23 witness: the success redirect of one callback was just sent, the
\* account holds the credential, and a second callback still awaits its
\* write.
C23_Witness ==
  \E s \in Sessions, P \in Providers :
    /\ CallbackAnswered(s, P)
    /\ resp.query[1][1] = "connected"
    /\ inflight # {}
    /\ \E a \in Ids : users[a][P].connected /\ users[a][P].accessToken # Null

\* C24: a listing endpoint of provider P calls the provider's API only when
\* the credential of P on the authenticated account has connected = true and
\* an access token; then the answer is what the provider's answer makes it.
\* Otherwise the endpoint answers 400 "not connected" whatever the provider
\* would have answered.  So a listing that directly follows a successful
\* disconnect of P is answered 400, and the account stays unlinked (and its
\* listings rejected) until a callback for P writes a credential.
C24_ListingGuard ==
  [][ /\ \A s \in Sessions, P \in Providers, o \in ListOutcomes :
           ( IsAuthenticated(s) /\ List(s, P, o) )
           => LET c == users[sessions[s].user][P]
              IN IF c.connected /\ c.accessToken # "null"
                 THEN /\ resp'.body.error = o
                      /\ o = "ok" => resp'.status = 200
                 ELSE /\ resp'.status = 400
                      /\ resp'.body.error = "not connected"
      /\ \A s \in Sessions, P \in Providers, o \in ListOutcomes :
           ( DisconnectAnswered(s, P, now) /\ List(s, P, o) )
           => resp'.status = 400 /\ resp'.body.error = "not connected"
      /\ \A a \in Ids, P \in Providers :
           ( ~users[a][P].connected /\ users'[a][P].connected )
           => \E r \in inflight \ inflight' : r.userId = a /\ r.provider = P
    ]_vars

\* C24 witness: a listing was just answered 400 "not connected" for an account
\* that a callback of this session had linked and that has disconnected since.
C24_Witness ==
  \E s \in Sessions, P \in Providers :
    /\ resp.op = "list" /\ resp.at = now /\ resp.status = 400
    /\ resp.session = s /\ resp.provider = P
    /\ resp.body.error = "not connected"
    /\ linked[s][P] = 1
    /\ <<P, sessions[s].user>> \in flows
    /\ IsCleared(users[sessions[s].user][P])

\* C25: a primary login by an account that exists already replaces only the
\* primary access and refresh tokens of that account: the credentials of
\* every secondary provider (connected flag, tokens, email, expiry) on every
\* account, the GitHub ids and the other accounts are the same before and
\* after the login.
C25_LoginKeepsIntegrations ==
  [][ \A s \in Sessions, p \in Profiles, keep \in BOOLEAN :
        ( FindByGithubId(p) # NoId /\ Login(s, p, keep) )
        => /\ Len(users') = Len(users)
           /\ \A a \in Ids :
                /\ users'[a].githubId = users[a].githubId
                /\ \A P \in Providers : users'[a][P] = users[a][P]
                /\ a # FindByGithubId(p) => users'[a] = users[a]
           /\ users'[FindByGithubId(p)].accessToken \in {"gh-at-1", "gh-at-2"}
    ]_vars

\* C25 witness: an account that holds a linked credential has just logged in
\* again.
C25_Witness ==
  /\ resp.op = "login" /\ resp.at = now /\ resp.status = 302
  /\ IsAuthenticated(resp.session)
  /\ \E P \in Providers :
       /\ users[sessions[resp.session].user][P].connected
       /\ users[sessions[resp.session].user][P].accessToken # Null
       /\ users[sessions[resp.session].user][P].expiresAt > NullDate

\* the ids of the events the calendars returned, calendar by calendar in the
\* order of the calendar list, each calendar's events in the returned order
RECURSIVE IdsInListOrder(_)
IdsInListOrder(calendars) ==
  IF calendars = <<>> THEN <<>>
  ELSE LET c == Head(calendars)
       IN [i \in 1..Len(c.items) |-> c.items[i].id] \o IdsInListOrder(Tail(calendars))

\* C26: the merged event list is deterministic under concurrency: for given
\* per-calendar results the events of the answer are ordered by calendar in
\* calendar-list order, each calendar's events in the order returned,
\* whatever the order in which the concurrent per-calendar requests ended.
C26_MergedOrderIsListOrder ==
  ( EventsAnswered /\ resp.status = 200 )
  => [i \in 1..Len(resp.body.events) |-> resp.body.events[i].id]
       = IdsInListOrder(fetch.calendars)

\* C26 witness: the request of the second calendar ended before that of the
\* first, the calendars returned different events, and the listing was
\* answered.
C26_Witness ==
  /\ EventsAnswered /\ resp.status = 200
  /\ Len(fetch.calendars) = 2
  /\ fetch.order = <<2, 1>>
  /\ fetch.calendars[1].items # <<>> /\ fetch.calendars[2].items # <<>>
  /\ fetch.calendars[1].items[1].id # fetch.calendars[2].items[1].id

\* ------------------------------------------- GET /pull-requests, step by step
\* user.username: profile.username of the GitHub profile the account was
\* created from
Usernames == <<"login-1", "login-2", "login-3">>

Username(user) == Usernames[user.githubId]

\* new Date(s).getTime() for the updated_at values of the sample pull requests
GetTime(s) ==
  CASE s = "1970-01-01T00:00:01Z" -> 1000
    [] s = "1970-01-01T00:00:02Z" -> 2000

SampleDates == {"1970-01-01T00:00:01Z", "1970-01-01T00:00:02Z"}

\* the author of a pull request: 101 and 102 are by login-1, 103 is a pull
\* request of somebody else that involves login-1
AuthorOf(id) == IF id = 103 THEN "someone-else" ELSE "login-1"

\* pull requests as the search API returns them; the second search runs later
\* than the first, so one pull request can come back with two update times
SamplePulls ==
  { [ id |-> 101, title |-> "fix", user |-> [login |-> AuthorOf(101)], updated_at |-> d ] :
      d \in SampleDates }
    \cup { [ id |-> 102, title |-> "feature", user |-> [login |-> AuthorOf(102)],
             updated_at |-> "1970-01-01T00:00:02Z" ],
           [ id |-> 103, title |-> "review", user |-> [login |-> AuthorOf(103)],
             updated_at |-> "1970-01-01T00:00:01Z" ] }

\* what one search request ends with: a rejection with a code, or a response
\* whose data.items is a list of pull requests
SearchOutcomes ==
  { [ok |-> FALSE, code |-> c, items |-> <<>>] : c \in {401, 500} }
    \cup { [ok |-> TRUE, code |-> 200, items |-> q] : q \in SeqsUpTo(SamplePulls, MaxPulls) }

NoResult == [settled |-> FALSE, items |-> <<>>]

\* p.catch(e => ({ data: { items: [] } })): what the wrapped promise of a
\* search resolves with
SearchResult(search) ==
  [settled |-> TRUE, items |-> IF search.ok THEN search.items ELSE <<>>]

\* (mutant) the pull requests are collected in a list
MapSetPush(m, pr) == Append(m, pr)

\* allPRs.set(pr.id, pr) on a Map, as the sequence of its values in insertion
\* order: a new key goes to the end, a known key keeps its place and takes
\* the new value
MapSet(m, pr) ==
  IF \E k \in 1..Len(m) : m[k].id = pr.id
  THEN [k \in 1..Len(m) |-> IF m[k].id = pr.id THEN pr ELSE m[k]]
  ELSE Append(m, pr)

\* responses.forEach(... items.forEach(pr => if (pr.user.login ===
\* user.username) allPRs.set(pr.id, pr))), over the items of all responses
RECURSIVE AllPRs(_, _, _)
AllPRs(m, items, username) ==
  IF items = <<>> THEN m
  ELSE AllPRs(IF Head(items).user.login = username THEN MapSet(m, Head(items)) ELSE m,
              Tail(items), username)

\* one pull request of the answer
FormatPull(pr) ==
  [ id |-> pr.id, title |-> pr.title, user |-> [login |-> pr.user.login],
    updatedAt |-> pr.updated_at ]

\* where the sort puts x into a list sorted by update time, newest first; the
\* sort is stable, so x goes behind the entries of the same time
RECURSIVE InsertByUpdated(_, _)
InsertByUpdated(sorted, x) ==
  IF sorted = <<>> THEN <<x>>
  ELSE IF GetTime(x.updatedAt) - GetTime(Head(sorted).updatedAt) > 0
       THEN <<x>> \o sorted
       ELSE <<Head(sorted)>> \o InsertByUpdated(Tail(sorted), x)

\* pullRequests.sort((a, b) => new Date(b.updatedAt).getTime()
\*                             - new Date(a.updatedAt).getTime())
RECURSIVE SortByUpdated(_)
SortByUpdated(list) ==
  IF list = <<>> THEN <<>>
  ELSE InsertByUpdated(SortByUpdated(SubSeq(list, 1, Len(list) - 1)), list[Len(list)])

\* GET /pull-requests up to `await Promise.all`: requireAuth, the guard, and
\* the two search requests
PullsStart(s, first, second) ==
  /\ Step
  /\ fetch.kind \in {"none", "pulls-answered"}
  /\ IF ~IsAuthenticated(s)
     THEN resp' = Unauthorized("pulls", s, "github") /\ fetch' = NoFetch
     ELSE IF users[sessions[s].user].accessToken = Null
     THEN /\ resp' = Response("pulls", s, "github", 400, "", <<>>,
                              [error |-> "GitHub not connected"])
          /\ fetch' = NoFetch
     ELSE /\ fetch' = [ kind |-> "pulls", session |-> s, searches |-> <<first, second>>,
                        results |-> <<NoResult, NoResult>>, order |-> <<>> ]
          /\ resp' = resp
  /\ UNCHANGED <<users, sessions, flows, inflight, linked, attempt, verifying>>

\* search request i ends; the two requests end in either order
SearchSettles(i) ==
  /\ Step
  /\ fetch.kind = "pulls"
  /\ i \in 1..Len(fetch.searches)
  /\ ~fetch.results[i].settled
  /\ fetch' = [fetch EXCEPT !.results[i] = SearchResult(fetch.searches[i]),
                            !.order = Append(@, i)]
  /\ UNCHANGED <<users, sessions, flows, inflight, linked, attempt, verifying, resp>>

\* Promise.all has resolved (no wrapped promise rejects): the results are
\* merged, formatted, sorted and sent
PullsRespond ==
  /\ Step
  /\ fetch.kind = "pulls"
  /\ \A i \in 1..Len(fetch.searches) : fetch.results[i].settled
  /\ LET user == users[sessions[fetch.session].user]
         merged == AllPRs(<<>>, Flat(fetch.results), Username(user))
     IN resp' = Response("pulls", fetch.session, "github", 200, "", <<>>,
                         [pullRequests |->
                            SortByUpdated([i \in 1..Len(merged) |-> FormatPull(merged[i])])])
  /\ fetch' = [fetch EXCEPT !.kind = "pulls-answered"]
  /\ UNCHANGED <<users, sessions, flows, inflight, linked, attempt, verifying>>

InitPulls == InitLinked("googleCalendar", FALSE)

NextPulls ==
  \/ \E s \in Sessions, first, second \in SearchOutcomes : PullsStart(s, first, second)
  \/ \E i \in 1..2 : SearchSettles(i)
  \/ PullsRespond

\* the pull-request listing of an account, request by request
SpecPulls == InitPulls /\ [][NextPulls]_vars

\* the pull-request listing that was answered in the step just taken
PullsAnswered ==
  /\ fetch.kind = "pulls-answered"
  /\ resp.op = "pulls" /\ resp.at = now

\* C27: the pull-request listing merges the results of its two concurrent
\* searches: the answer holds each pull request id at most once, holds only
\* pull requests authored by the account's username, is ordered by update
\* time descending, and a search that failed counts as an empty result and
\* does not fail the request.
C27_PullRequestsMerged ==
  PullsAnswered =>
    LET prs == resp.body.pullRequests
        found == { p \in UNION { {s.items[k] : k \in 1..Len(s.items)} :
                                  s \in {fetch.searches[i] : i \in {j \in 1..2 : fetch.searches[j].ok}} } :
                     p.user.login = "login-1" }
    IN /\ resp.status = 200
       /\ \A i, j \in 1..Len(prs) : i # j => prs[i].id # prs[j].id
       /\ \A i \in 1..Len(prs) : prs[i].user.login = "login-1"
       /\ \A i, j \in 1..Len(prs) :
            i < j => GetTime(prs[i].updatedAt) >= GetTime(prs[j].updatedAt)
       /\ {prs[i].id : i \in 1..Len(prs)} = {p.id : p \in found}

\* C27 witness: both searches returned the same pull request of the account,
\* the first one also a pull request of somebody else, the second one also a
\* newer pull request of the account behind the older one; the listing was
\* answered with the two pull requests of the account.
C27_Witness ==
  /\ PullsAnswered /\ resp.status = 200
  /\ fetch.order = <<2, 1>>
  /\ \E a, b \in 1..2 : fetch.searches[1].ok /\ Len(fetch.searches[1].items) = 2
       /\ fetch.searches[1].items[a].id = 101 /\ fetch.searches[1].items[b].id = 103
  /\ fetch.searches[2].ok /\ Len(fetch.searches[2].items) = 2
  /\ fetch.searches[2].items[1].id = 101
  /\ fetch.searches[2].items[2].id = 102
  /\ GetTime(fetch.searches[2].items[1].updated_at) < GetTime(fetch.searches[2].items[2].updated_at)
  /\ Len(resp.body.pullRequests) = 2
  /\ resp.body.pullRequests[1].id = 102

\* ============================================ the dashboard in the browser
\* The integration components of the dashboard: each shows the listings of one
\* provider and caches them in localStorage.  A behaviour looks at one of them.
Components == {"googleCalendar", "gmail", "github"}

\* localStorage keys as <<fixed part, date part>>: CACHE_KEY_PREFIX + dateKey
\* of the calendar, CACHE_KEY of the mail, ISSUES_CACHE_KEY and PRS_CACHE_KEY
CalendarKeys == { <<"calendar_events_cache_", d>> : d \in {"2025-06-21", "2025-06-22"} }
GmailKey == <<"gmail_emails_cache", "">>
IssuesKey == <<"github_issues_cache", "">>
PrsKey == <<"github_prs_cache", "">>
CacheKeys == CalendarKeys \cup {GmailKey, IssuesKey, PrsKey}

\* the keys a component reads and writes
KeysOf(component) ==
  CASE component = "googleCalendar" -> CalendarKeys
    [] component = "gmail" -> {GmailKey}
    [] component = "github" -> {IssuesKey, PrsKey}

\* the state variable a listing is shown from
ListOf(key) ==
  CASE key \in CalendarKeys -> "events"
    [] key = GmailKey -> "emails"
    [] key = IssuesKey -> "issues"
    [] key = PrsKey -> "pullRequests"

\* CACHE_DURATION of the component, in milliseconds
CacheDuration(component) ==
  CASE component = "googleCalendar" -> 5 * 60 * 1000
    [] component = "gmail" -> 2 * 60 * 1000
    [] component = "github" -> 5 * 60 * 1000

\* key.startsWith(prefix) for the keys above
StartsWith(key, prefix) == key[1] = prefix

\* a listing as the server answered it; owner is the account it was read for
Listing(owner) == [ owner |-> owner ]
NoListing == Listing(NoId)

\* localStorage.getItem(key) === null
NoItem == [ present |-> FALSE, data |-> NoListing, timestamp |-> 0 ]

\* { events, timestamp: Date.now() }
CacheData(data, t) == [ present |-> TRUE, data |-> data, timestamp |-> t ]

\* (mutant) an entry is still served at the age of the cache duration
GetCachedAtDuration(store, key, t, component) ==
  IF store[key].present /\ t - store[key].timestamp <= CacheDuration(component)
  THEN store[key].data
  ELSE NoListing

\* getCachedEvents / getCachedEmails / getCachedData at Date.now() = t: the
\* data of the entry, or null
GetCached(store, key, t, component) ==
  IF store[key].present /\ t - store[key].timestamp < CacheDuration(component)
  THEN store[key].data
  ELSE NoListing

\* setCachedEvents / setCachedEmails / setCachedData at Date.now() = t
SetCached(store, key, data, t) == [store EXCEPT ![key] = CacheData(data, t)]

\* what the component removes from localStorage after a disconnect: every key
\* with the calendar prefix, or the mail key
RemovedOnDisconnect(component) ==
  IF component = "googleCalendar"
  THEN {k \in CacheKeys : StartsWith(k, "calendar_events_cache_")}
  ELSE IF component = "gmail" THEN {GmailKey} ELSE {}

\* what the component removes after a 401 answer to the listing of `key`:
\* every key with the calendar prefix, the mail key, or the key of the one
\* GitHub listing that was asked for
RemovedOnExpired(component, key) ==
  IF component = "googleCalendar"
  THEN {k \in CacheKeys : StartsWith(k, "calendar_events_cache_")}
  ELSE IF component = "gmail" THEN {GmailKey} ELSE {key}

RemoveItems(store, keys) == [k \in CacheKeys |-> IF k \in keys THEN NoItem ELSE store[k]]

NothingShown == [l \in {"events", "emails", "issues", "pullRequests"} |-> NoListing]

Request(op, key, age) == [ op |-> op, key |-> key, age |-> age ]
NoKey == <<"", "">>

\* the component as useState initialises it; mounted says that the dashboard
\* is the page that is open
Unmounted(b) ==
  [b EXCEPT !.mounted = FALSE, !.checked = FALSE, !.isConnected = FALSE,
            !.shown = NothingShown, !.requests = {}]

\* a browser with an empty localStorage that has the dashboard open
FreshBrowser(component) ==
  [ component |-> component, clock |-> 0, advances |-> 0,
    storage |-> [k \in CacheKeys |-> NoItem],
    mounted |-> TRUE, checked |-> FALSE, isConnected |-> FALSE, shown |-> NothingShown,
    requests |-> {}, handled |-> 0,
    last |-> [kind |-> "none", key |-> NoKey, age |-> 0] ]

\* a step of the browser alone: the server sees nothing of it
BrowserStep == UNCHANGED <<now, users, sessions, flows, inflight, linked, resp, active,
                           attempt, fetch, verifying>>

\* the answer that has arrived for a request of kind op and is not yet handled
Arrived(op) ==
  /\ resp.op = op /\ resp.session = 1 /\ resp.at = now
  /\ resp.at # browser.handled

\* time passes in the browser
AdvanceClock(d) ==
  /\ browser.advances < MaxAdvances
  /\ browser' = [browser EXCEPT !.clock = @ + d, !.advances = @ + 1]
  /\ BrowserStep

\* checkConnectionStatus up to the await; the effect that calls it runs once
\* after the component has mounted
CheckStatusStart ==
  /\ browser.mounted
  /\ ~browser.checked
  /\ browser' = [browser EXCEPT !.checked = TRUE,
                                !.requests = @ \cup {Request("status", NoKey, 0)}]
  /\ BrowserStep

\* checkConnectionStatus after the await: response.ok sets isConnected
CheckStatusDone ==
  /\ Arrived("status")
  /\ \E r \in browser.requests :
       /\ r.op = "status"
       /\ browser' = [browser EXCEPT
            !.requests = @ \ {r},
            !.handled = resp.at,
            !.isConnected = IF resp.status = 200 THEN resp.body.connected ELSE @]
  /\ BrowserStep

\* fetchEvents / fetchEmails / fetchIssues / fetchPullRequests up to the
\* await: nothing when not connected, the cached listing when there is one,
\* else the request to the server
FetchStart(key) ==
  /\ browser.mounted
  /\ key \in KeysOf(browser.component)
  /\ browser.isConnected
  /\ \A r \in browser.requests : r.key # key
  /\ LET cached == GetCached(browser.storage, key, browser.clock, browser.component)
         age == IF browser.storage[key].present
                THEN browser.clock - browser.storage[key].timestamp ELSE 0
     IN IF cached # NoListing
        THEN browser' = [browser EXCEPT
               !.shown[ListOf(key)] = cached,
               !.last = [kind |-> "served", key |-> key, age |-> age]]
        ELSE browser' = [browser EXCEPT
               !.requests = @ \cup {Request("list", key, age)},
               !.last = [kind |-> "requested", key |-> key, age |-> age]]
  /\ BrowserStep

\* the fetch after the await: an ok answer is shown and cached, a 401 answer
\* disconnects the component and removes cache entries, any other answer
\* changes nothing
FetchDone(key) ==
  /\ Arrived("list")
  /\ resp.provider = browser.component
  /\ \E r \in browser.requests :
       /\ r.op = "list" /\ r.key = key
       /\ browser' =
            IF resp.status = 200
            THEN [browser EXCEPT
                   !.requests = @ \ {r}, !.handled = resp.at,
                   !.shown[ListOf(key)] = Listing(sessions[1].user),
                   !.storage = SetCached(@, key, Listing(sessions[1].user), browser.clock),
                   !.last = [kind |-> "stored", key |-> key, age |-> r.age]]
            ELSE IF resp.status = 401
            THEN [browser EXCEPT
                   !.requests = @ \ {r}, !.handled = resp.at,
                   !.isConnected = FALSE,
                   !.storage = RemoveItems(@, RemovedOnExpired(browser.component, key)),
                   !.last = [kind |-> "expired", key |-> key, age |-> r.age]]
            ELSE [browser EXCEPT
                   !.requests = @ \ {r}, !.handled = resp.at,
                   !.last = [kind |-> "failed", key |-> key, age |-> r.age]]
  /\ BrowserStep

\* handleDisconnect up to the await (the calendar and the mail component),
\* offered for an account that is shown as connected
DisconnectStart ==
  /\ browser.mounted
  /\ browser.isConnected
  /\ browser.component \in {"googleCalendar", "gmail"}
  /\ \A r \in browser.requests : r.op # "disconnect"
  /\ browser' = [browser EXCEPT !.requests = @ \cup {Request("disconnect", NoKey, 0)}]
  /\ BrowserStep

\* handleDisconnect after the await: response.ok clears the component and
\* its cache entries
DisconnectDone ==
  /\ Arrived("disconnect")
  /\ \E r \in browser.requests :
       /\ r.op = "disconnect"
       /\ browser' =
            IF resp.status = 200
            THEN [browser EXCEPT
                   !.requests = @ \ {r}, !.handled = resp.at,
                   !.isConnected = FALSE,
                   !.shown[ListOf(CHOOSE k \in KeysOf(browser.component) : TRUE)] = NoListing,
                   !.storage = RemoveItems(@, RemovedOnDisconnect(browser.component)),
                   !.last = [kind |-> "disconnected", key |-> NoKey, age |-> 0]]
            ELSE [browser EXCEPT !.requests = @ \ {r}, !.handled = resp.at]
  /\ BrowserStep

\* the browser leaves the dashboard for /auth/logout or /auth/github: the
\* components are gone, localStorage stays
Navigate ==
  /\ browser.mounted
  /\ browser' = Unmounted(browser)
  /\ BrowserStep

\* the redirect after the login opens the dashboard: the component mounts
Mount ==
  /\ ~browser.mounted
  /\ Arrived("login")
  /\ browser' = [browser EXCEPT !.mounted = TRUE, !.handled = resp.at]
  /\ BrowserStep

\* GET /api/github/status
GithubStatus(s) ==
  /\ Tick
  /\ resp' = IF IsAuthenticated(s)
             THEN Response("status", s, "github", 200, "", <<>>,
                           [ connected |-> users[sessions[s].user].accessToken # Null
                                           /\ users[sessions[s].user].githubId # NoId ])
             ELSE Unauthorized("status", s, "github")
  /\ UNCHANGED <<users, sessions, flows, inflight, linked, attempt>>

Waiting(op) == \E r \in browser.requests : r.op = op

\* the server handles the requests of the browser
ServerForBrowser ==
  \/ Waiting("status") /\ browser.component = "github" /\ GithubStatus(1)
  \/ Waiting("status") /\ browser.component # "github" /\ Status(1, browser.component)
  \/ Waiting("list") /\ browser.component = "github"
       /\ \E o \in ListOutcomes : GithubList(1, o)
  \/ Waiting("list") /\ browser.component # "github"
       /\ \E o \in ListOutcomes : List(1, browser.component, o)
  \/ Waiting("disconnect") /\ Disconnect(1, browser.component)
  \/ ~browser.mounted /\ \E keep \in BOOLEAN : Logout(1, keep)
  \/ ~browser.mounted /\ \E p \in Profiles, keep \in BOOLEAN : Login(1, p, keep)

\* Every account exists and has the component's provider linked; account 1 is
\* logged in in session 1, whose browser has the dashboard open and nothing
\* cached.
InitBrowser ==
  \E component \in Components :
    LET P == IF component \in Providers THEN component ELSE "googleCalendar"
    IN /\ active = {P}
       /\ now = 0
       /\ users = [a \in 1..MaxUsers |->
                     IF component \in Providers
                     THEN [NewUser(a, "gh-at-1") EXCEPT ![P] = LinkedCredential(P, AuthData(a), 0)]
                     ELSE NewUser(a, "gh-at-1")]
       /\ sessions = [s \in Sessions |-> IF s = 1 THEN [NewSession EXCEPT !.user = 1]
                                         ELSE NewSession]
       /\ flows = IF component \in Providers THEN {<<P, a>> : a \in 1..MaxUsers} ELSE {}
       /\ inflight = {}
       /\ linked = [s \in Sessions |-> [Q \in Providers |->
                      IF component \in Providers /\ s = 1 /\ Q = P THEN 1 ELSE 0]]
       /\ resp = [ at |-> 0, op |-> "none", session |-> NoId, provider |-> "", status |-> 0,
                   location |-> "", query |-> <<>>, body |-> [error |-> ""] ]
       /\ attempt = [s \in Sessions |-> [Q \in Providers |-> "none"]]
       /\ fetch = NoFetch
       /\ verifying = {}
       /\ browser = FreshBrowser(component)

NextBrowser ==
  \/ \E d \in {1, CacheDuration(browser.component) - 1} : AdvanceClock(d)
  \/ CheckStatusStart
  \/ CheckStatusDone
  \/ \E key \in CacheKeys : FetchStart(key)
  \/ \E key \in CacheKeys : FetchDone(key)
  \/ DisconnectStart
  \/ DisconnectDone
  \/ Navigate
  \/ Mount
  \/ ServerForBrowser

\* the dashboard of one browser and the server behind it
SpecBrowser == InitBrowser /\ [][NextBrowser]_vars

\* C28: the cache of the browser is time-boxed: a fetch shows the cached
\* listing, without a request to the server, exactly when the entry is younger
\* than the cache duration (5 minutes for calendar events and GitHub data, 2
\* minutes for mail); an entry that has reached that age is not shown, the
\* fetch sends a request instead, and the listing the server answers with
\* overwrites the entry with the time of its arrival.
C28_CacheIsTimeBoxed ==
  [][ \A key \in CacheKeys :
        /\ FetchStart(key)
           => LET item == browser.storage[key]
                  duration == IF browser.component = "gmail" THEN 120000 ELSE 300000
              IN IF item.present /\ browser.clock - item.timestamp < duration
                 THEN /\ browser'.shown[ListOf(key)] = item.data
                      /\ browser'.requests = browser.requests
                 ELSE /\ browser'.shown = browser.shown
                      /\ \E r \in browser'.requests \ browser.requests :
                           r.op = "list" /\ r.key = key
        /\ ( FetchDone(key) /\ resp.status = 200 )
           => /\ browser'.storage[key].present
              /\ browser'.storage[key].timestamp = browser.clock
              /\ browser'.storage[key].data = browser'.shown[ListOf(key)]
              /\ browser'.storage[key].data.owner = sessions[1].user ]_vars

\* C28 witness: an entry whose age was exactly the cache duration was not
\* served; the fetch asked the server and the answer has replaced the entry.
C28_Witness ==
  /\ browser.component # "none"
  /\ browser.last.kind = "stored"
  /\ browser.last.age = (IF browser.component = "gmail" THEN 120000 ELSE 300000)
  /\ browser.storage[browser.last.key].present
  /\ browser.storage[browser.last.key].timestamp = browser.clock
  /\ browser.clock >= browser.last.age

\* C29: the cached listings belong to the account that is linked and logged
\* in: after a successful disconnect, and after a 401 answer to a listing, no
\* cache entry of the component's provider is left, and a listing served from
\* the cache is a listing of the account that is logged in, also after a
\* logout and the login of another account.
C29_CacheBelongsToAccount ==
  [][ /\ ( DisconnectDone /\ resp.status = 200 )
         => \A k \in KeysOf(browser.component) : ~browser'.storage[k].present
      /\ \A key \in CacheKeys :
           /\ ( FetchDone(key) /\ resp.status = 401 )
              => \A k \in KeysOf(browser.component) : ~browser'.storage[k].present
           /\ ( FetchStart(key) /\ browser'.last.kind = "served" )
              => browser'.shown[ListOf(key)].owner = sessions[1].user ]_vars

====
